---- MODULE Spec2Model ----
(***************************************************************************)
(* Sutherland-Hodgman clipping server (server.cpp): the geometric          *)
(* primitives, the circular vertex ring, the clipping engine and the       *)
(* request handler.                                                        *)
(*                                                                         *)
(* A double is modelled as an exact rational n/d (d > 0, lowest terms);    *)
(* the 1e-15 thresholds of the source are kept as exact comparisons.       *)
(* Intermediate values (the locals of the source) are passed as operator   *)
(* arguments, which TLC evaluates once.                                    *)
(***************************************************************************)
EXTENDS Integers, Sequences, FiniteSets, TLC

VARIABLES
    poly,      \* ring machine: the Polygon under construction
    log,       \* ring machine: the points handed to Polygon::insert, in order
    copySrc,   \* ring machine: walk of the source if poly came from the copy constructor
    moved,     \* ring machine: the cursor was advanced since poly was constructed
    clips,     \* ring machine: number of clipPolygonToEdge calls made
    input,     \* clip machine: <<subject points, cutter points>> as received
    s,         \* clip machine: the caller's subject Polygon
    p,         \* clip machine: the caller's cutter Polygon
    heap,      \* clip machine: live Polygon objects allocated by clipPolygon
    allocs,    \* clip machine: number of Polygon objects allocated so far
    q,         \* clip machine: clipPolygon's working pointer
    i,         \* clip machine: clipPolygon's loop counter
    result,    \* clip machine: the caller's result pointer
    ret,       \* clip machine: clipPolygon's return value
    pc,        \* clip machine: position in clipPolygon
    trace,     \* clip machine: per-iteration record of the last clipPolygonToEdge
    srv,       \* server: "accepting" or "stopped"
    req,       \* server: token stream of the last accepted request
    resp,      \* server: the responses sent on the last connection
    conn       \* server: state of the last connection

vars == <<poly, log, copySrc, moved, clips, input, s, p, heap, allocs, q, i, result, ret, pc,
          trace, srv, req, resp, conn>>

ringVars == <<poly, log, copySrc, moved, clips>>
clipVars == <<input, s, p, heap, allocs, q, i, result, ret, pc, trace>>
srvVars  == <<srv, req, resp, conn>>

----------------------------------------------------------------------------
(* Bounds *)
MaxCoord == 2      \* subject vertices lie on the grid 0..MaxCoord
MaxRing  == 3      \* ring machine: Polygon::insert is called on polygons smaller than this
MaxClips == 1      \* ring machine: at most this many clipPolygonToEdge calls
MaxTokens == 4     \* server: generated requests have at most this many tokens

----------------------------------------------------------------------------
(* Exact rational arithmetic standing for double *)
Abs(n) == IF n < 0 THEN -n ELSE n

RECURSIVE GCD(_, _)
GCD(a, b) == IF b = 0 THEN a ELSE GCD(b, a % b)

Reduce(n, d, g) == [n |-> n \div g, d |-> d \div g]
Rat(n, d) == Reduce(n, d, GCD(Abs(n), d))

R(n) == [n |-> n, d |-> 1]
RAdd(a, b) == Rat(a.n * b.d + b.n * a.d, a.d * b.d)
RSub(a, b) == Rat(a.n * b.d - b.n * a.d, a.d * b.d)
RMul(a, b) == Rat(a.n * b.n, a.d * b.d)
RDiv(a, b) == IF b.n > 0 THEN Rat(a.n * b.d, a.d * b.n)
                         ELSE Rat(-(a.n * b.d), a.d * (-b.n))
RAbs(a) == [n |-> Abs(a.n), d |-> a.d]
RLess(a, b) == a.n * b.d < b.n * a.d
RLeq(a, b) == a.n * b.d <= b.n * a.d

\* a < 1e-15 for a >= 0:  n/d < 10^-15  <=>  n < ceil(d / 10^15)
LessEps(a) ==
    a.n < ((((a.d - 1) \div 100000) \div 100000) \div 100000) + 1

----------------------------------------------------------------------------
(* Point and Edge *)
LEFT == "LEFT"
RIGHT == "RIGHT"
BEHIND == "BEHIND"
BEYOND == "BEYOND"
BETWEEN == "BETWEEN"
ORIGIN == "ORIGIN"
DESTINATION == "DESTINATION"
PointClass == {LEFT, RIGHT, BEHIND, BEYOND, BETWEEN, ORIGIN, DESTINATION}

CLOCKWISE == "CLOCKWISE"
COUNTER_CLOCKWISE == "COUNTER_CLOCKWISE"
Rotation == {CLOCKWISE, COUNTER_CLOCKWISE}

Point(x, y) == [x |-> x, y |-> y]
IntPoint(c) == Point(R(c[1]), R(c[2]))

\* Point::operator-
PointSub(a, b) == Point(RSub(a.x, b.x), RSub(a.y, b.y))

\* Point::length, squared: sqrt is monotone, so lengths compare as their squares
LengthSq(a) == RAdd(RMul(a.x, a.x), RMul(a.y, a.y))

\* Point::operator==
PointEq(a, b) == LessEps(LengthSq(PointSub(a, b)))

Edge(org, dest) == [org |-> org, dest |-> dest]

\* Edge::point
point(e, t) ==
    Point(RAdd(e.org.x, RMul(t, RSub(e.dest.x, e.org.x))),
          RAdd(e.org.y, RMul(t, RSub(e.dest.y, e.org.y))))

\* Point::classify mutated: the sign of the cross product sa is read the
\* other way round
classifyFromFlipped(a, b, sa, pt, e) ==
    IF sa.n < 0 THEN LEFT
    ELSE IF sa.n > 0 THEN RIGHT
    ELSE IF RMul(a.x, b.x).n < 0 \/ RMul(a.y, b.y).n < 0 THEN BEHIND
    ELSE IF RLess(LengthSq(a), LengthSq(b)) THEN BEYOND
    ELSE IF PointEq(e.org, pt) THEN ORIGIN
    ELSE IF PointEq(e.dest, pt) THEN DESTINATION
    ELSE BETWEEN

\* Point::classify, from its locals a, b and sa
classifyFrom(a, b, sa, pt, e) ==
    IF sa.n > 0 THEN LEFT
    ELSE IF sa.n < 0 THEN RIGHT
    ELSE IF RMul(a.x, b.x).n < 0 \/ RMul(a.y, b.y).n < 0 THEN BEHIND
    ELSE IF RLess(LengthSq(a), LengthSq(b)) THEN BEYOND
    ELSE IF PointEq(e.org, pt) THEN ORIGIN
    ELSE IF PointEq(e.dest, pt) THEN DESTINATION
    ELSE BETWEEN

classifyVectors(a, b, pt, e) ==
    classifyFrom(a, b, RSub(RMul(a.x, b.y), RMul(b.x, a.y)), pt, e)

\* Point::classify
classify(pt, e) ==
    classifyVectors(PointSub(e.dest, e.org), PointSub(pt, e.org), pt, e)

\* Edge::intersect, its result once t and u are computed
intersectResult(t, u) ==
    [ok |-> RLeq(R(0), t) /\ RLeq(t, R(1)) /\ RLeq(R(0), u) /\ RLeq(u, R(1)),
     written |-> TRUE, t |-> t]

\* Edge::intersect mutated: hands back the parameter along the other edge
intersectSolveOther(a, b, c, d, denom, e1, e2) ==
    IF LessEps(RAbs(denom))
    THEN [ok |-> FALSE, written |-> FALSE, t |-> R(0)]
    ELSE intersectResult(RDiv(RSub(RMul(e1, c), RMul(e2, a)), denom),
                         RDiv(RSub(RMul(e1, d), RMul(e2, b)), denom))

\* Edge::intersect, from its locals; written is FALSE when the function
\* returns before it assigns the out-parameter t
intersectSolve(a, b, c, d, denom, e1, e2) ==
    IF LessEps(RAbs(denom))
    THEN [ok |-> FALSE, written |-> FALSE, t |-> R(0)]
    ELSE intersectResult(RDiv(RSub(RMul(e1, d), RMul(e2, b)), denom),
                         RDiv(RSub(RMul(e1, c), RMul(e2, a)), denom))

intersectCoeffs(self, e, a, b, c, d) ==
    intersectSolve(a, b, c, d, RSub(RMul(a, d), RMul(b, c)),
                   RSub(e.org.x, self.org.x), RSub(e.org.y, self.org.y))

\* Edge::intersect
intersect(self, e) ==
    intersectCoeffs(self, e,
                    RSub(self.dest.x, self.org.x), RSub(e.org.x, e.dest.x),
                    RSub(self.dest.y, self.org.y), RSub(e.org.y, e.dest.y))

----------------------------------------------------------------------------
(* Vertex and Polygon: a Polygon owns an arena of vertices 1..Len(pt);     *)
(* next/prev are the _next/_prev pointers, Null is nullptr.                *)
Null == 0

EmptyPolygon == [v |-> Null, size |-> 0, next |-> <<>>, prev |-> <<>>, pt |-> <<>>]

\* Vertex::insert mutated: the back link of the old successor is not updated
VertexInsertNoBackLink(P, this, pnt) ==
    [P EXCEPT !.pt = Append(P.pt, pnt),
              !.next = [Append(P.next, P.next[this]) EXCEPT ![this] = Len(P.pt) + 1],
              !.prev = Append(P.prev, this)]

\* Vertex::insert, applied to vertex `this` of P with a new vertex for pnt
VertexInsert(P, this, pnt) ==
    [P EXCEPT !.pt = Append(P.pt, pnt),
              !.next = [Append(P.next, P.next[this]) EXCEPT ![this] = Len(P.pt) + 1],
              !.prev = IF P.next[this] # Null
                       THEN [Append(P.prev, this) EXCEPT ![P.next[this]] = Len(P.pt) + 1]
                       ELSE Append(P.prev, this)]

\* Polygon::insert
insert(P, pnt) ==
    IF P.v = Null
    THEN [v |-> 1, size |-> P.size + 1, next |-> <<1>>, prev |-> <<1>>,
          pt |-> <<pnt>>]
    ELSE [VertexInsert(P, P.v, pnt) EXCEPT !.size = P.size + 1]

\* Vertex::neighbor / Polygon::advance
advance(P, rotation) ==
    [P EXCEPT !.v = IF rotation = CLOCKWISE THEN P.next[P.v] ELSE P.prev[P.v]]

\* Polygon::getPoint, Polygon::cw, Polygon::size
getPoint(P) == P.pt[P.v]
cw(P) == P.next[P.v]
size(P) == P.size

\* Polygon::edge: EdgeThrows stands for the std::runtime_error
EdgeThrows == [thrown |-> TRUE]
edge(P) == IF P.v = Null THEN EdgeThrows ELSE Edge(P.pt[P.v], P.pt[cw(P)])

\* Polygon::Polygon(const Polygon&): the do-while loop from vertex current
RECURSIVE CopyFrom(_, _, _)
CopyFrom(other, current, acc) ==
    IF other.next[current] = other.v
    THEN insert(acc, other.pt[current])
    ELSE CopyFrom(other, other.next[current], insert(acc, other.pt[current]))

PolygonCopy(other) ==
    IF other.v # Null THEN CopyFrom(other, other.v, EmptyPolygon) ELSE EmptyPolygon

\* the handler's construction loop (and buildPolygon of the interface)
RECURSIVE BuildFrom(_, _, _)
BuildFrom(pts, k, acc) ==
    IF k > Len(pts) THEN acc ELSE BuildFrom(pts, k + 1, insert(acc, pts[k]))

BuildPolygon(pts) == BuildFrom(pts, 1, EmptyPolygon)

\* the handler's serialisation walk: do { emit v; v = v->cw(); } while (v != _v)
RECURSIVE WalkFrom(_, _, _)
WalkFrom(P, cur, acc) ==
    IF P.next[cur] = P.v
    THEN Append(acc, P.pt[cur])
    ELSE WalkFrom(P, P.next[cur], Append(acc, P.pt[cur]))

Walk(P) == IF P.v = Null THEN <<>> ELSE WalkFrom(P, P.v, <<>>)

----------------------------------------------------------------------------
(* The clipping engine *)

\* the inside test of clipPolygonToEdge, mutated to "inside iff LEFT"
IsInsideLeftOnly(class) == class = LEFT

\* the inside test of clipPolygonToEdge: (pt.classify(e) != LEFT)
IsInside(class) == class # LEFT

\* values an unassigned double t may hold
IndeterminateT == {R(0), Rat(1, 2)}

\* what one iteration of the loop of clipPolygonToEdge looks at
Observation(org, dest, orgClass, destClass) ==
    [org |-> org, dest |-> dest, orgClass |-> orgClass, destClass |-> destClass,
     orgInside |-> IsInside(orgClass), destInside |-> IsInside(destClass)]

ObservePoints(org, dest, e) ==
    Observation(org, dest, classify(org, e), classify(dest, e))

Observe(S, e) == ObservePoints(getPoint(S), S.pt[cw(S)], e)

Emission(out, emitted, o, unwritten) ==
    [out |-> out, emitted |-> emitted, obs |-> o, unwritten |-> unwritten]

\* the crossing branch mutated: an entering edge emits the crossing point only
clipCrossAtNoDest(o, cross, unwritten, out) ==
    Emission(insert(out, cross), <<cross>>, o, unwritten)

\* if (orgInside) p->insert(cross); else { p->insert(cross); p->insert(dest); }
clipCrossAt(o, cross, unwritten, out) ==
    IF o.orgInside
    THEN Emission(insert(out, cross), <<cross>>, o, unwritten)
    ELSE Emission(insert(insert(out, cross), o.dest), <<cross, o.dest>>, o, unwritten)

\* e.intersect(s.edge(), t); cross = e.point(t): t is u if intersect left it
\* unassigned
clipCross(o, x, e, out, u) ==
    clipCrossAt(o, point(e, IF x.written THEN x.t ELSE u), ~x.written, out)

clipEmit(o, S, e, out, u) ==
    IF o.orgInside # o.destInside
    THEN clipCross(o, intersect(e, edge(S)), e, out, u)
    ELSE IF o.orgInside
    THEN Emission(insert(out, o.dest), <<o.dest>>, o, FALSE)
    ELSE Emission(out, <<>>, o, FALSE)

\* one iteration of the loop of clipPolygonToEdge on subject S (cursor at the
\* edge's origin), adding to the polygon out
clipBody(S, e, out, u) == clipEmit(Observe(S, e), S, e, out, u)

\* the state of the loop after the iteration `it`: s.advance(CLOCKWISE), i++
clipAfter(st, it) ==
    [s |-> advance(st.s, CLOCKWISE), p |-> it.out,
     emitted |-> st.emitted \o it.emitted,
     trace |-> Append(st.trace, it.obs),
     unwritten |-> st.unwritten \/ it.unwritten]

\* the loop of clipPolygonToEdge from its k-th iteration on
RECURSIVE clipLoop(_, _, _, _)
clipLoop(st, e, k, u) ==
    IF k >= size(st.s)
    THEN st
    ELSE clipLoop(clipAfter(st, clipBody(st.s, e, st.p, u)), e, k + 1, u)

\* Polygon* p = new Polygon();
clipStart(S) ==
    [s |-> S, p |-> EmptyPolygon, emitted |-> <<>>, trace |-> <<>>,
     unwritten |-> FALSE]

\* result = p; return p->size() > 0;
clipReturn(res) ==
    [s |-> res.s, result |-> res.p, ret |-> size(res.p) > 0,
     emitted |-> res.emitted, trace |-> res.trace, unwritten |-> res.unwritten]

\* clipPolygonToEdge: s is the subject as the call leaves it, result the
\* polygon handed back through the out-parameter, ret the return value;
\* unwritten tells that the call read a t that intersect had not assigned
clipPolygonToEdge(S, e, u) == clipReturn(clipLoop(clipStart(S), e, 0, u))

\* the outcomes of one call: one per value the unassigned t may hold
clipOutcomesOf(c, S, e) ==
    IF c.unwritten
    THEN { clipPolygonToEdge(S, e, u) : u \in IndeterminateT }
    ELSE {c}

clipOutcomes(S, e) == clipOutcomesOf(clipPolygonToEdge(S, e, R(0)), S, e)

----------------------------------------------------------------------------
(* Resting values of the machines a specification does not run *)
RingIdle ==
    /\ poly = EmptyPolygon /\ log = <<>> /\ copySrc = <<>>
    /\ moved = FALSE /\ clips = 0

ClipIdle ==
    /\ input = <<>> /\ s = EmptyPolygon /\ p = EmptyPolygon
    /\ heap = <<>> /\ allocs = 0 /\ q = Null /\ i = 0
    /\ result = Null /\ ret = "none" /\ pc = "idle" /\ trace = <<>>

SrvIdle ==
    /\ srv = "idle" /\ req = <<>> /\ resp = <<>> /\ conn = "none"

----------------------------------------------------------------------------
(* Inputs *)
RECURSIVE IntPoints(_)
IntPoints(cs) ==
    IF cs = <<>> THEN <<>> ELSE <<IntPoint(Head(cs))>> \o IntPoints(Tail(cs))

\* the hard-coded request of virus.cpp
VirusSubject == << <<0, 0>>, <<2, 0>>, <<1, 3>> >>
VirusCutter == << <<0, 2>>, <<1, -1>>, <<2, 2>> >>
\* the overlapping squares and the far-apart triangles of the specification
SquareSubject == << <<0, 0>>, <<2, 0>>, <<2, 2>>, <<0, 2>> >>
SquareCutter == << <<1, 1>>, <<3, 1>>, <<3, 3>>, <<1, 3>> >>
FarSubject == << <<-1, -1>>, <<1, -1>>, <<0, 1>> >>
FarCutter == << <<99, 99>>, <<101, 99>>, <<100, 101>> >>

Scenarios == { <<VirusSubject, VirusCutter>>, <<SquareSubject, SquareCutter>>,
               <<FarSubject, FarCutter>> }

GridPts(g) == (0..g) \X (0..g)
Cross2(a, b, c) == (b[1] - a[1]) * (c[2] - a[2]) - (c[1] - a[1]) * (b[2] - a[2])
LexLess(a, b) == a[1] < b[1] \/ (a[1] = b[1] /\ a[2] < b[2])

\* vertex lists with the interior on the left of each listed edge: the order
\* of the scenarios above, which Polygon::insert turns into a ring whose
\* _next direction has the interior on its right
TriangleInputs(g) ==
    { <<a, b, c>> : a \in GridPts(g), b \in GridPts(g), c \in GridPts(g) }
RightTriangles(g) ==
    { t \in TriangleInputs(g) :
        LexLess(t[1], t[2]) /\ LexLess(t[1], t[3]) /\ Cross2(t[1], t[2], t[3]) > 0 }
\* the same triangles listed the other way round
LeftTriangles(g) ==
    { t \in TriangleInputs(g) :
        LexLess(t[1], t[2]) /\ LexLess(t[1], t[3]) /\ Cross2(t[1], t[2], t[3]) < 0 }
Rectangles(g) ==
    { << <<x[1], y[1]>>, <<x[2], y[1]>>, <<x[2], y[2]>>, <<x[1], y[2]>> >> :
        x \in { c \in (0..g) \X (0..g) : c[1] < c[2] },
        y \in { c \in (0..g) \X (0..g) : c[1] < c[2] } }
Singles(g) == { <<a>> : a \in GridPts(g) }
Segments(g) ==
    { sg \in { <<a, b>> : a \in GridPts(g), b \in GridPts(g) } : LexLess(sg[1], sg[2]) }

SubjectInputs ==
    RightTriangles(MaxCoord) \cup Rectangles(MaxCoord)
        \cup Singles(MaxCoord) \cup Segments(MaxCoord)
\* cutters: the same shapes, both ways round, on the cell 1..2 of the grid
Shift(cs) == [k \in DOMAIN cs |-> <<cs[k][1] + 1, cs[k][2] + 1>>]
CutterInputs ==
    { Shift(c) : c \in RightTriangles(1) \cup LeftTriangles(1) \cup Rectangles(1)
                         \cup Singles(1) \cup Segments(1) }

ClipInputs == (SubjectInputs \X CutterInputs) \cup Scenarios

----------------------------------------------------------------------------
(* The clip machine: one call clipPolygon(s, p, result) *)
ClipInit ==
    /\ input \in ClipInputs
    /\ s = BuildPolygon(IntPoints(input[1]))
    /\ p = BuildPolygon(IntPoints(input[2]))
    /\ heap = <<>> /\ allocs = 0 /\ q = Null /\ i = 0
    /\ result = Null /\ ret = "none" /\ pc = "call" /\ trace = <<>>
    /\ RingIdle /\ SrvIdle

Delete(h, id) == [k \in DOMAIN h \ {id} |-> h[k]]

\* Polygon* q = new Polygon(s);
ClipEnter ==
    /\ pc = "call"
    /\ heap' = (allocs + 1) :> PolygonCopy(s)
    /\ allocs' = allocs + 1
    /\ q' = allocs + 1
    /\ i' = 0
    /\ pc' = "loop"
    /\ UNCHANGED <<input, s, p, result, ret, trace>>
    /\ UNCHANGED ringVars /\ UNCHANGED srvVars

\* one iteration of the loop of clipPolygon, the call of clipPolygonToEdge
\* included
ClipStep ==
    /\ pc = "loop"
    /\ i < size(p)
    /\ IF edge(p) = EdgeThrows
       THEN /\ pc' = "thrown"
            /\ UNCHANGED <<input, s, p, heap, allocs, q, i, result, ret, trace>>
       ELSE \E c \in clipOutcomes(heap[q], edge(p)) :
            /\ heap' = ((allocs + 1) :> c.result) @@ Delete(heap, q)
            /\ allocs' = allocs + 1
            /\ trace' = c.trace
            /\ IF ~c.ret
               THEN /\ ret' = FALSE
                    /\ pc' = "done"
                    /\ UNCHANGED <<p, q, i>>
               ELSE /\ q' = allocs + 1
                    /\ p' = advance(p, CLOCKWISE)
                    /\ i' = i + 1
                    /\ UNCHANGED <<ret, pc>>
            /\ UNCHANGED <<input, s, result>>
    /\ UNCHANGED ringVars /\ UNCHANGED srvVars

\* result = q; return true;
ClipReturn ==
    /\ pc = "loop"
    /\ i >= size(p)
    /\ result' = q
    /\ ret' = TRUE
    /\ pc' = "done"
    /\ UNCHANGED <<input, s, p, heap, allocs, q, i, trace>>
    /\ UNCHANGED ringVars /\ UNCHANGED srvVars

ClipNext == ClipEnter \/ ClipStep \/ ClipReturn

Spec == ClipInit /\ [][ClipNext]_vars

----------------------------------------------------------------------------
(* The ring machine: Polygon operations applied to one polygon *)
RingPts == { IntPoint(VirusSubject[k]) : k \in 1..3 }
EdgesOf(P) == { Edge(P.pt[k], P.pt[P.next[k]]) : k \in 1..Len(P.pt) }
RingEdges == EdgesOf(BuildPolygon(IntPoints(VirusCutter)))

RingInit ==
    /\ poly = EmptyPolygon /\ log = <<>> /\ copySrc = <<>>
    /\ moved = FALSE /\ clips = 0
    /\ ClipIdle /\ SrvIdle

RingInsert ==
    /\ size(poly) < MaxRing
    /\ \E pnt \in RingPts :
        /\ poly' = insert(poly, pnt)
        /\ log' = Append(log, pnt)
    /\ copySrc' = <<>>
    /\ UNCHANGED <<moved, clips>>
    /\ UNCHANGED clipVars /\ UNCHANGED srvVars

\* every caller advances inside a loop bounded by size()
RingAdvance ==
    /\ size(poly) > 0
    /\ \E rotation \in Rotation : poly' = advance(poly, rotation)
    /\ moved' = TRUE
    /\ UNCHANGED <<log, copySrc, clips>>
    /\ UNCHANGED clipVars /\ UNCHANGED srvVars

RingCopy ==
    /\ poly' = PolygonCopy(poly)
    /\ log' = Walk(poly)
    /\ copySrc' = Walk(poly)
    /\ moved' = FALSE
    /\ UNCHANGED clips
    /\ UNCHANGED clipVars /\ UNCHANGED srvVars

RingClip ==
    /\ clips < MaxClips
    /\ \E e \in RingEdges : \E c \in clipOutcomes(poly, e) :
        /\ poly' = c.result
        /\ log' = c.emitted
    /\ copySrc' = <<>>
    /\ moved' = FALSE
    /\ clips' = clips + 1
    /\ UNCHANGED clipVars /\ UNCHANGED srvVars

RingNext == RingInsert \/ RingAdvance \/ RingCopy \/ RingClip

SpecRing == RingInit /\ [][RingNext]_vars

----------------------------------------------------------------------------
(* The server: accept, receive, parse, clip, respond, close *)
Num(n) == [num |-> TRUE, val |-> n]
Word == [num |-> FALSE, val |-> 0]      \* a token that is no number

RECURSIVE Coordinates(_)
Coordinates(cs) ==
    IF cs = <<>> THEN <<>>
    ELSE <<Num(Head(cs)[1]), Num(Head(cs)[2])>> \o Coordinates(Tail(cs))

\* the message client.cpp and virus.cpp write: S x1 y1 ... P x1 y1 ...
Message(sub, cut) ==
    <<Num(Len(sub))>> \o Coordinates(sub) \o <<Num(Len(cut))>> \o Coordinates(cut)

Tokens == {Num(0), Num(1), Num(2), Word}

Extend(streams, n) ==
    streams \cup { Append(ts, tk) : ts \in { x \in streams : Len(x) = n - 1 },
                                     tk \in Tokens }

RECURSIVE TokenStreams(_)
TokenStreams(n) == IF n = 0 THEN { <<>> } ELSE Extend(TokenStreams(n - 1), n)

Requests ==
    TokenStreams(MaxTokens)
        \cup { Message(sc[1], sc[2]) : sc \in Scenarios }
        \cup { Message(SquareSubject, <<>>) }

INT_MAX == 2147483647
\* values an unassigned int or double may hold
IndeterminateInt == {-1, 0, 1, INT_MAX}
IndeterminateCoord == {0, 7}

\* std::istringstream: operator>> on stream st into a variable holding old.
\* A failed stream, or one at its end, leaves the variable as it was; a
\* token that is no number stores 0 and sets failbit.
Extract(st, old) ==
    IF st.fail THEN [st |-> st, val |-> old, kept |-> TRUE]
    ELSE IF st.pos > Len(st.toks)
    THEN [st |-> [st EXCEPT !.fail = TRUE], val |-> old, kept |-> TRUE]
    ELSE IF ~st.toks[st.pos].num
    THEN [st |-> [st EXCEPT !.fail = TRUE], val |-> 0, kept |-> FALSE]
    ELSE [st |-> [st EXCEPT !.pos = st.pos + 1], val |-> st.toks[st.pos].val,
          kept |-> FALSE]

\* new Vertex throws std::bad_alloc before a loop of n insertions completes
ExhaustsMemory(n) == n >= INT_MAX

ReadState(st, P, uninit) == [st |-> st, poly |-> P, uninit |-> uninit]

\* P.insert(Point(x, y)) with the extractions x and y of one iteration
ReadPair(x, y, acc) ==
    ReadState(y.st, insert(acc.poly, Point(R(x.val), R(y.val))),
              acc.uninit \/ x.kept \/ y.kept)

ReadY(x, jc, acc) == ReadPair(x, Extract(x.st, jc), acc)

\* for (i = 0; i < n; ++i) { double x, y; iss >> x >> y; P.insert(Point(x, y)); }
RECURSIVE ReadVertices(_, _, _, _)
ReadVertices(acc, n, k, jc) ==
    IF k >= n THEN acc
    ELSE ReadVertices(ReadY(Extract(acc.st, jc), jc, acc), n, k + 1, jc)

Parsed(thrown, S, P, uninit) ==
    [thrown |-> thrown, s |-> S, p |-> P, uninit |-> uninit]

ParseEnd(sv, np, pv) ==
    Parsed(FALSE, sv.poly, pv.poly, sv.uninit \/ np.kept \/ pv.uninit)

\* iss >> p_size and the second loop
ParseCutter(sv, np, jc) ==
    IF ExhaustsMemory(np.val)
    THEN Parsed(TRUE, sv.poly, EmptyPolygon, sv.uninit \/ np.kept)
    ELSE ParseEnd(sv, np,
                  ReadVertices(ReadState(np.st, EmptyPolygon, FALSE), np.val, 0, jc))

ParseSubject(sv, jp, jc) == ParseCutter(sv, Extract(sv.st, jp), jc)

\* iss >> s_size and the first loop
ParseSizes(ns, jp, jc) ==
    IF ExhaustsMemory(ns.val)
    THEN Parsed(TRUE, EmptyPolygon, EmptyPolygon, ns.kept)
    ELSE ParseSubject(
             ReadVertices(ReadState(ns.st, EmptyPolygon, ns.kept), ns.val, 0, jc),
             jp, jc)

\* the parsing part of the handler; js, jp, jc are what the unassigned
\* s_size, p_size and x, y hold.  thrown: an exception left the try block;
\* uninit: an unassigned variable was read
Parse(toks, js, jp, jc) ==
    ParseSizes(Extract([toks |-> toks, pos |-> 1, fail |-> FALSE], js), jp, jc)

ParseOutcomesOf(plain, toks) ==
    IF plain.uninit
    THEN { Parse(toks, js, jp, jc) :
             js \in IndeterminateInt, jp \in IndeterminateInt,
             jc \in IndeterminateCoord }
    ELSE {plain}

ParseOutcomes(toks) == ParseOutcomesOf(Parse(toks, 0, 0, 0), toks)

Response(status, n, lines) == [status |-> status, n |-> n, lines |-> lines]

SrvInit ==
    /\ srv = "accepting" /\ req = <<>> /\ resp = <<>> /\ conn = "none"
    /\ ClipIdle /\ RingIdle

\* accept() and the recv loop
Accept ==
    /\ srv = "accepting"
    /\ conn # "open"
    /\ req' \in Requests
    /\ conn' = "open"
    /\ resp' = <<>>
    /\ input' = <<>> /\ s' = EmptyPolygon /\ p' = EmptyPolygon
    /\ heap' = <<>> /\ allocs' = 0 /\ q' = Null /\ i' = 0
    /\ result' = Null /\ ret' = "none" /\ pc' = "parse" /\ trace' = <<>>
    /\ UNCHANGED srv
    /\ UNCHANGED ringVars

\* the handler up to the call of clipPolygon
ParseRequest ==
    /\ srv = "accepting" /\ conn = "open" /\ pc = "parse"
    /\ \E o \in ParseOutcomes(req) :
        /\ s' = o.s
        /\ p' = o.p
        /\ pc' = IF o.thrown THEN "thrown" ELSE "call"
    /\ UNCHANGED <<input, heap, allocs, q, i, result, ret, trace>>
    /\ UNCHANGED srvVars
    /\ UNCHANGED ringVars

\* the handler after clipPolygon: serialise, send, close.  Walking a result
\* whose _v is null dereferences a null pointer: the process is killed, or
\* the read yields some line and the loop ends.
Respond ==
    /\ srv = "accepting" /\ conn = "open"
    /\ pc \in {"done", "thrown"}
    /\ IF pc = "thrown"
       THEN /\ resp' = Append(resp, Response("ERROR", 0, <<>>))
            /\ conn' = "closed"
            /\ UNCHANGED <<srv, heap>>
       ELSE IF ret = FALSE
       THEN /\ resp' = Append(resp, Response("FAIL", 0, <<>>))
            /\ conn' = "closed"
            /\ UNCHANGED <<srv, heap>>
       ELSE IF heap[result].v # Null
       THEN /\ resp' = Append(resp, Response("OK", size(heap[result]),
                                             Walk(heap[result])))
            /\ heap' = Delete(heap, result)
            /\ conn' = "closed"
            /\ UNCHANGED srv
       ELSE \E killed \in BOOLEAN :
            IF killed
            THEN /\ srv' = "stopped"
                 /\ UNCHANGED <<resp, conn, heap>>
            ELSE /\ resp' = Append(resp, Response("OK", 0, <<Point(R(0), R(0))>>))
                 /\ heap' = Delete(heap, result)
                 /\ conn' = "closed"
                 /\ UNCHANGED srv
    /\ pc' = "accept"
    /\ UNCHANGED <<input, s, p, allocs, q, i, result, ret, trace, req>>
    /\ UNCHANGED ringVars

SrvNext == Accept \/ ParseRequest \/ ClipEnter \/ ClipStep \/ ClipReturn \/ Respond

SpecServer == SrvInit /\ [][SrvNext]_vars

----------------------------------------------------------------------------
(* Geometry the claims are stated in, computed apart from the engine *)
Turn(a, b, c) ==
    RSub(RMul(RSub(b.x, a.x), RSub(c.y, a.y)),
         RMul(RSub(c.x, a.x), RSub(b.y, a.y))).n

Succ(W, k) == W[(k % Len(W)) + 1]

Reverse(W) == [k \in 1..Len(W) |-> W[Len(W) + 1 - k]]

\* at least three vertices, and every other vertex strictly to the right of
\* each edge: strictly convex, interior on the right of the walk
ClockwiseConvex(W) ==
    /\ Len(W) >= 3
    /\ \A k \in 1..Len(W) : \A j \in 1..Len(W) :
          (W[j] # W[k] /\ W[j] # Succ(W, k)) => Turn(W[k], Succ(W, k), W[j]) < 0
    /\ \A k \in 1..Len(W) : \A j \in 1..Len(W) : (W[j] = W[k]) => j = k

StrictlyConvex(W) == ClockwiseConvex(W) \/ ClockwiseConvex(Reverse(W))

Within(x, a, b) == (RLeq(a, x) /\ RLeq(x, b)) \/ (RLeq(b, x) /\ RLeq(x, a))

OnSegment(pt, a, b) ==
    Turn(a, b, pt) = 0 /\ Within(pt.x, a.x, b.x) /\ Within(pt.y, a.y, b.y)

\* pt lies inside or on the boundary of the convex polygon walked as W
InOrOn(pt, W) ==
    IF Len(W) = 0 THEN FALSE
    ELSE IF Len(W) = 1 THEN pt = W[1]
    ELSE IF Len(W) = 2 THEN OnSegment(pt, W[1], W[2])
    ELSE \/ \A k \in 1..Len(W) : Turn(W[k], Succ(W, k), pt) <= 0
         \/ \A k \in 1..Len(W) : Turn(W[k], Succ(W, k), pt) >= 0

SegmentsMeet(a, b, c, d) ==
    \/ /\ Turn(a, b, c) * Turn(a, b, d) < 0
       /\ Turn(c, d, a) * Turn(c, d, b) < 0
    \/ OnSegment(c, a, b) \/ OnSegment(d, a, b)
    \/ OnSegment(a, c, d) \/ OnSegment(b, c, d)

\* the convex polygons walked as A and B have a point in common
SharePoint(A, B) ==
    \/ \E k \in 1..Len(A) : InOrOn(A[k], B)
    \/ \E k \in 1..Len(B) : InOrOn(B[k], A)
    \/ \E k \in 1..Len(A) : \E j \in 1..Len(B) :
          SegmentsMeet(A[k], Succ(A, k), B[j], Succ(B, j))

IsRotation(A, B) ==
    /\ Len(A) = Len(B)
    /\ Len(A) > 0
    /\ \E r \in 0..(Len(A) - 1) :
          \A k \in 1..Len(A) : A[k] = B[((k - 1 + r) % Len(A)) + 1]

Vertices(W) == { W[k] : k \in 1..Len(W) }

Done == pc = "done"
Succeeded == Done /\ ret = TRUE /\ result \in DOMAIN heap
ResultWalk == Walk(heap[result])

----------------------------------------------------------------------------
(* C1: for clockwise convex subject and cutter that share a point,          *)
(* clipPolygon returns true and hands back a polygon with at least one      *)
(* vertex, every vertex of which lies inside or on the boundary of both.    *)
C1_Pre ==
    /\ Done
    /\ ClockwiseConvex(Walk(s)) /\ ClockwiseConvex(Walk(p))
    /\ SharePoint(Walk(s), Walk(p))

C1_ResultInsideBoth ==
    C1_Pre =>
        /\ Succeeded
        /\ size(heap[result]) >= 1
        /\ \A k \in 1..Len(ResultWalk) :
              InOrOn(ResultWalk[k], Walk(s)) /\ InOrOn(ResultWalk[k], Walk(p))

\* a proper overlap: the result has a vertex that is no vertex of the inputs
C1_Witness ==
    /\ C1_Pre /\ Succeeded
    /\ Len(ResultWalk) >= 3
    /\ \E k \in 1..Len(ResultWalk) :
          ResultWalk[k] \notin Vertices(Walk(s)) \cup Vertices(Walk(p))

----------------------------------------------------------------------------
(* C2: for convex polygons with at least one vertex each that share no     *)
(* point, clipPolygon returns false and leaves result unassigned.          *)
C2_Disjoint ==
    /\ Done
    /\ size(s) >= 1 /\ size(p) >= 1
    /\ ~SharePoint(Walk(s), Walk(p))

C2_AsClaimed == C2_Disjoint => (ret = FALSE /\ result = Null)

----------------------------------------------------------------------------
(* C3: the squares (0,0),(2,0),(2,2),(0,2) and (1,1),(3,1),(3,3),(1,3),     *)
(* inserted in that order, clip to exactly the four vertices                *)
(* (2,2),(1,2),(1,1),(2,1), up to rotation of the walk.                     *)
C3_Case == Done /\ input = <<SquareSubject, SquareCutter>>

C3_UnitSquare ==
    C3_Case =>
        /\ Succeeded
        /\ IsRotation(ResultWalk,
                    IntPoints(<< <<2, 2>>, <<1, 2>>, <<1, 1>>, <<2, 1>> >>))

C3_Witness == C3_Case /\ Succeeded /\ size(heap[result]) = 4

----------------------------------------------------------------------------
(* C4 as claimed: the triangles of virus.cpp clip to a non-empty convex     *)
(* polygon that has both a vertex where a cutter edge meets a subject edge  *)
(* and a vertex that is an original vertex of one of the triangles.         *)
C4_Case == Done /\ input = <<VirusSubject, VirusCutter>>

IsCrossing(pt) ==
    /\ \E k \in 1..size(s) : OnSegment(pt, Walk(s)[k], Succ(Walk(s), k))
    /\ \E k \in 1..size(p) : OnSegment(pt, Walk(p)[k], Succ(Walk(p), k))

IsOriginal(pt) == pt \in Vertices(Walk(s)) \cup Vertices(Walk(p))

C4_AsClaimed ==
    C4_Case =>
        /\ Succeeded
        /\ StrictlyConvex(ResultWalk)
        /\ \E k \in 1..Len(ResultWalk) : IsCrossing(ResultWalk[k])
        /\ \E k \in 1..Len(ResultWalk) : IsOriginal(ResultWalk[k])

(* C4 amended: the result is the convex hexagon (2/3,0),(4/3,0),(5/3,1),    *)
(* (4/3,2),(2/3,2),(1/3,1); each vertex is a point where a cutter edge      *)
(* meets a subject edge, and none is an original vertex of a triangle.      *)
C4_Hexagon ==
    { Point(Rat(2, 3), R(0)), Point(Rat(4, 3), R(0)), Point(Rat(5, 3), R(1)),
      Point(Rat(4, 3), R(2)), Point(Rat(2, 3), R(2)), Point(Rat(1, 3), R(1)) }

C4_AllCrossings ==
    C4_Case =>
        /\ Succeeded
        /\ StrictlyConvex(ResultWalk)
        /\ Len(ResultWalk) = 6
        /\ Vertices(ResultWalk) = C4_Hexagon
        /\ \A k \in 1..Len(ResultWalk) :
              IsCrossing(ResultWalk[k]) /\ ~IsOriginal(ResultWalk[k])

C4_Witness == C4_Case /\ Succeeded /\ Len(ResultWalk) = 6

----------------------------------------------------------------------------
(* C5 as claimed: clipping a clockwise convex polygon P (three or more      *)
(* vertices) against itself succeeds with a walk that is a rotation of P's  *)
(* walk: same length, same cyclic order, same direction.                    *)
C5_Case == Done /\ input[1] = input[2] /\ ClockwiseConvex(Walk(s))

C5_AsClaimed == C5_Case => (Succeeded /\ IsRotation(ResultWalk, Walk(s)))

----------------------------------------------------------------------------
(* C7 as claimed: an endpoint is treated as inside iff classify returns     *)
(* LEFT; an endpoint on the cutting edge is treated as outside.             *)
OnEdgeClass == {ORIGIN, DESTINATION, BETWEEN}

Emits(o) ==
    IF o.orgClass # LEFT THEN 1
    ELSE IF o.destClass # LEFT THEN 2 ELSE 0

RECURSIVE SumEmits(_, _)
SumEmits(tr, k) == IF k > Len(tr) THEN 0 ELSE Emits(tr[k]) + SumEmits(tr, k + 1)

----------------------------------------------------------------------------
(* C8 as claimed: when clipPolygon has returned, the only polygon it        *)
(* allocated that is still live is the one handed back on success; on       *)
(* failure none is live.                                                    *)
C8_AsClaimed ==
    Done => DOMAIN heap = (IF ret = TRUE THEN {result} ELSE {})

----------------------------------------------------------------------------
(* C6 as claimed: every accepted request gets exactly one response, OK      *)
(* with N and exactly N coordinate lines, FAIL or ERROR; the connection is  *)
(* closed and the server accepts again; a request that cannot be parsed is  *)
(* answered ERROR; the server never stops.                                  *)
WellFormedResponse(r) ==
    /\ r.status \in {"OK", "FAIL", "ERROR"}
    /\ r.status = "OK" => (Len(r.lines) = r.n)

\* S, then S coordinate pairs, then P, then P coordinate pairs
Parseable(toks) ==
    /\ Len(toks) >= 1 /\ toks[1].num /\ toks[1].val >= 0
    /\ Len(toks) >= 2 * toks[1].val + 2
    /\ \A k \in 1..(2 * toks[1].val + 2) : toks[k].num
    /\ LET m == toks[2 * toks[1].val + 2].val
       IN /\ m >= 0
          /\ Len(toks) >= 2 * toks[1].val + 2 + 2 * m
          /\ \A k \in 1..(2 * toks[1].val + 2 + 2 * m) : toks[k].num

C6_AsClaimed ==
    /\ srv = "accepting"
    /\ conn = "closed" =>
          /\ Len(resp) = 1
          /\ WellFormedResponse(resp[1])
          /\ ~Parseable(req) => resp[1].status = "ERROR"

----------------------------------------------------------------------------
(* C9: a polygon built by Polygon::insert and Polygon::advance, by the copy *)
(* constructor or by clipPolygonToEdge is a closed ring: from every vertex  *)
(* _size steps of _next lead back to it and no fewer do, _prev undoes       *)
(* _next; an empty polygon has a null cursor.                               *)
RECURSIVE NextN(_, _, _)
NextN(P, x, n) == IF n = 0 THEN x ELSE NextN(P, P.next[x], n - 1)

RingOK(P) ==
    IF size(P) = 0
    THEN P.v = Null
    ELSE /\ P.v \in 1..Len(P.pt)
         /\ Len(P.pt) = size(P)
         /\ \A x \in 1..Len(P.pt) :
               /\ NextN(P, x, size(P)) = x
               /\ \A m \in 1..(size(P) - 1) : NextN(P, x, m) # x
               /\ P.prev[P.next[x]] = x
               /\ P.next[P.prev[x]] = x

C9_ClosedRing == RingOK(poly)

\* a clip result of three or more vertices whose cursor was moved since
C9_Witness == clips >= 1 /\ moved /\ size(poly) >= 3 /\ RingOK(poly)

----------------------------------------------------------------------------
(* C10 as claimed: a polygon built by inserting p1, ..., pn is walked from  *)
(* its cursor as p1, ..., pn; so a copy is walked as its source is, and a   *)
(* clip result in the order its vertices were emitted.                      *)
C10_AsClaimed ==
    ~moved =>
        /\ Walk(poly) = log
        /\ copySrc # <<>> => Walk(poly) = copySrc

====
